---- MODULE Spec2Model ----
(***************************************************************************)
(* slam-rs: the dmenu-driven layout wizard (src/src/ui.rs), the layout     *)
(* catalog (src/src/config.rs), the picker and process layer               *)
(* (src/src/cli/dmenu.rs, src/src/cli/cmd.rs, src/src/cli/xrandr.rs) and   *)
(* the domain model (src/src/screen.rs) as one sequential state machine.   *)
(*                                                                         *)
(* A Rust String is modelled as a sequence of tokens.  A token is a chunk  *)
(* of text; a whitespace character and the check mark of CHECK_SIGN are    *)
(* always tokens of their own, so that trim() and replace(CHECK_SIGN, "")  *)
(* are computed on the text and not assumed.  A Vec<String> of menu        *)
(* options is modelled as the set of its elements (the code only tests     *)
(* membership, Message::contains).                                         *)
(***************************************************************************)
EXTENDS Integers, Sequences, FiniteSets, TLC

----------------------------------------------------------------------------
(* Bounds of the model *)

\* runs of the wizard (calls of create_layout by UI::start or by
\* ask_and_create_layout_if_yes) in one run of the program
MaxWizards == 1

\* parts between the separators 'x' of a resolution text given to
\* Resolution::from_str
MaxParts == 3

\* lines of a capability text given to OutputModes::from_str
MaxLines == 3

----------------------------------------------------------------------------
(* Strings *)

Str(t) == <<t>>
EmptyString == <<>>
IsWhitespace(t) == t \in {" ", "\n"}

RECURSIVE TrimStart(_)
TrimStart(s) ==
    IF s # <<>> /\ IsWhitespace(Head(s)) THEN TrimStart(Tail(s)) ELSE s

RECURSIVE TrimEnd(_)
TrimEnd(s) ==
    IF s # <<>> /\ IsWhitespace(s[Len(s)])
    THEN TrimEnd(SubSeq(s, 1, Len(s) - 1))
    ELSE s

\* str::trim
Trim(s) == TrimEnd(TrimStart(s))

\* config::CHECK_SIGN, " ✓": a space followed by the check mark
CHECK_SIGN == <<" ", "CHK">>

\* String::replace(CHECK_SIGN, ""): every non-overlapping match, left to right
RECURSIVE ReplaceCheckSign(_)
ReplaceCheckSign(s) ==
    IF s = <<>> THEN <<>>
    ELSE IF Len(s) >= 2 /\ SubSeq(s, 1, 2) = CHECK_SIGN
         THEN ReplaceCheckSign(SubSeq(s, 3, Len(s)))
         ELSE <<Head(s)>> \o ReplaceCheckSign(Tail(s))

----------------------------------------------------------------------------
(* Maps (HashMap<String, _>) as functions *)

EmptyMap == <<>>
Put(m, k, v) == [x \in (DOMAIN m) \cup {k} |-> IF x = k THEN v ELSE m[x]]
Remove(m, k) == [x \in (DOMAIN m) \ {k} |-> m[x]]

----------------------------------------------------------------------------
(* Decimal text of a u16 and back *)

Digits == <<"0", "1", "2", "3", "4", "5", "6", "7", "8", "9">>
IsDigit(t) == \E i \in 1..10 : Digits[i] = t
DigitValue(t) == (CHOOSE i \in 1..10 : Digits[i] = t) - 1
U16Max == 65535

\* format!("{}", n) of an unsigned integer
RECURSIVE NatToString(_)
NatToString(n) ==
    IF n < 10 THEN <<Digits[n + 1]>>
    ELSE NatToString(n \div 10) \o <<Digits[(n % 10) + 1]>>

RECURSIVE DigitsToNat(_)
DigitsToNat(s) ==
    IF s = <<>> THEN 0
    ELSE 10 * DigitsToNat(SubSeq(s, 1, Len(s) - 1)) + DigitValue(s[Len(s)])

IsDigitString(s) == s # <<>> /\ \A i \in 1..Len(s) : IsDigit(s[i])

----------------------------------------------------------------------------
(* Domain model, src/src/screen.rs *)

NoRef == <<>>

\* the variants of the enums, in declaration (EnumIter) order, and their labels
StateLabels == <<Str("Connected"), Str("Duplicated"), Str("Disconnected")>>
PositionLabels ==
    <<Str("Center"), Str("Left of"), Str("Right of"), Str("Above"), Str("Below")>>
OrientationLabels == <<Str("Normal"), Str("Inverted"), Str("Left"), Str("Right")>>

Range(seq) == {seq[i] : i \in DOMAIN seq}

\* vec_from_enum!(T): the labels of every variant
VecFromEnum(labels) == Range(labels)

Fatal == [tag |-> "FATAL", ref |-> NoRef]

\* State::from(state, duplicated_screen); ref = NoRef stands for None
StateFrom(state, duplicated_screen) ==
    CASE state = Str("Connected") -> [tag |-> "Connected", ref |-> NoRef]
      [] state = Str("Disconnected") -> [tag |-> "Disconnected", ref |-> NoRef]
      [] state = Str("Duplicated") ->
            IF duplicated_screen.some
            THEN [tag |-> "Duplicated", ref |-> duplicated_screen.val]
            ELSE Fatal
      [] OTHER -> Fatal

\* Position::from(position, relative_screen)
PositionFrom(position, relative_screen) ==
    IF position = Str("Center") THEN [tag |-> "Center", ref |-> NoRef]
    ELSE IF ~relative_screen.some THEN Fatal
    ELSE CASE position = Str("Left of") -> [tag |-> "LeftOf", ref |-> relative_screen.val]
           [] position = Str("Right of") -> [tag |-> "RightOf", ref |-> relative_screen.val]
           [] position = Str("Above") -> [tag |-> "Above", ref |-> relative_screen.val]
           [] position = Str("Below") -> [tag |-> "Below", ref |-> relative_screen.val]
           [] OTHER -> Fatal

\* impl From<String> for Orientation without the arm of "Right"
OrientationFromWithoutRight(orientation) ==
    CASE orientation = Str("Normal") -> "Normal"
      [] orientation = Str("Inverted") -> "Inverted"
      [] orientation = Str("Left") -> "Left"
      [] OTHER -> "FATAL"

\* impl From<String> for Orientation
OrientationFrom(orientation) ==
    CASE orientation = Str("Normal") -> "Normal"
      [] orientation = Str("Inverted") -> "Inverted"
      [] orientation = Str("Left") -> "Left"
      [] orientation = Str("Right") -> "Right"
      [] OTHER -> "FATAL"

Some(v) == [some |-> TRUE, val |-> v]
None == [some |-> FALSE, val |-> <<>>]

\* Resolution::to_string with the fields in the other order
ResolutionToStringWidthFirst(r) == NatToString(r.width) \o <<"x">> \o NatToString(r.height)

\* Resolution::to_string
ResolutionToString(r) == NatToString(r.height) \o <<"x">> \o NatToString(r.width)

\* str::split('x'): the pieces between the separators
RECURSIVE SplitX(_)
SplitX(s) ==
    IF \A i \in 1..Len(s) : s[i] # "x" THEN <<s>>
    ELSE LET i == CHOOSE j \in 1..Len(s) : s[j] = "x" /\ \A k \in 1..(j - 1) : s[k] # "x"
         IN  <<SubSeq(s, 1, i - 1)>> \o SplitX(SubSeq(s, i + 1, Len(s)))

\* str::parse::<u16>: decimal digits (after an optional '+') that fit in 16 bits
ParseU16(s) ==
    LET body == IF s # <<>> /\ Head(s) = "+" THEN Tail(s) ELSE s
    IN  IF IsDigitString(body) /\ DigitsToNat(body) <= U16Max
        THEN Some(DigitsToNat(body))
        ELSE None

\* Iterator::take(2)
Take2(seq) == SubSeq(seq, 1, IF Len(seq) < 2 THEN Len(seq) ELSE 2)

\* flat_map(|x| x.parse()): the values of the parts that parse, in order
RECURSIVE FlatMapParse(_)
FlatMapParse(parts) ==
    IF parts = <<>> THEN <<>>
    ELSE LET p == ParseU16(Head(parts))
         IN  (IF p.some THEN <<p.val>> ELSE <<>>) \o FlatMapParse(Tail(parts))

\* Resolution::from_str
ResolutionFromStr(resolution) ==
    LET parsed == FlatMapParse(Take2(SplitX(resolution)))
    IN  IF Len(parsed) = 2
        THEN [ok |-> TRUE, val |-> [height |-> parsed[1], width |-> parsed[2]]]
        ELSE [ok |-> FALSE, val |-> [height |-> 0, width |-> 0]]

\* Rate::to_string
RateToString(r) == NatToString(r.value)

\* Rate::from_str for the texts the model uses: digits, or digits '.' digits;
\* f64::round is half away from zero and `as u16` saturates
RateFromStr(rate) ==
    LET dot == {i \in 1..Len(rate) : rate[i] = "."}
        int == IF dot = {} THEN rate ELSE SubSeq(rate, 1, (CHOOSE i \in dot : TRUE) - 1)
        frac == IF dot = {} THEN <<>>
                ELSE SubSeq(rate, (CHOOSE i \in dot : TRUE) + 1, Len(rate))
        wellFormed == /\ Cardinality(dot) <= 1
                      /\ IsDigitString(int)
                      /\ (dot = {} \/ IsDigitString(frac))
        rounded == DigitsToNat(int)
                   + (IF frac # <<>> /\ DigitValue(frac[1]) >= 5 THEN 1 ELSE 0)
    IN  IF wellFormed
        THEN [ok |-> TRUE,
              val |-> [value |-> IF rounded > U16Max THEN U16Max ELSE rounded]]
        ELSE [ok |-> FALSE, val |-> [value |-> 0]]

\* map_str over OutputModes::resolutions / OutputModes::rates
Resolutions(modes) == {ResolutionToString(modes.resolutions[i]) : i \in DOMAIN modes.resolutions}
Rates(modes) == {RateToString(modes.rates[i]) : i \in DOMAIN modes.rates}

\* Output::new
OutputNew ==
    [name |-> EmptyString,
     mode |-> [resolution |-> [height |-> 0, width |-> 0], rate |-> [value |-> 0]],
     is_primary |-> FALSE,
     state |-> [tag |-> "Disconnected", ref |-> NoRef],
     position |-> [tag |-> "Center", ref |-> NoRef],
     orientation |-> "Normal"]

\* the marker config.rs reads and writes as layout.is_current; a new layout is not current
IsCurrentDefault == FALSE

\* Layout::new
LayoutNew == [name |-> EmptyString, outputs |-> EmptyMap, is_current |-> IsCurrentDefault]

\* Layout::add
LayoutAdd(l, o) == [l EXCEPT !.outputs = Put(l.outputs, o.name, o)]

\* Layout::is_empty
LayoutIsEmpty(l) == DOMAIN l.outputs = {}

----------------------------------------------------------------------------
(* Process layer, src/src/cli/cmd.rs.  A run of an external command is an   *)
(* input of the model: whether bash could be spawned, whether its standard  *)
(* output is UTF-8, its exit status and its standard output.                *)

Ok(v) == [tag |-> "Ok", val |-> v]
Err(e) == [tag |-> e, val |-> <<>>]

ProcessRun(spawned, utf8, status, stdout) ==
    [spawned |-> spawned, utf8 |-> utf8, status |-> status, stdout |-> stdout]

\* cmd::run_and_fetch_output
CmdRunAndFetchOutput(run) ==
    IF ~run.spawned THEN Err("Io")
    ELSE IF ~run.utf8 THEN Err("Utf8")
    ELSE IF run.stdout # <<>> THEN Ok(Trim(run.stdout))
    ELSE Err("EmptyOutput")

\* cmd::run: waits for the child and does not look at its exit status
CmdRun(run) == IF ~run.spawned THEN Err("Io") ELSE Ok(<<>>)

----------------------------------------------------------------------------
(* Picker, src/src/cli/dmenu.rs *)

\* Message::new
Message(prompt, content, validate_output) ==
    [prompt |-> prompt, content |-> content, validate |-> validate_output]

\* Message::contains
Contains(message, choice) == choice \in message.prompt

\* Dmenu::run_and_fetch_output without the arm of line 56: the empty output
\* is returned like any other error
DmenuRunAndFetchOutputEmptyIsError(message, validate_output, run) ==
    IF CmdRunAndFetchOutput(run).tag = "Ok"
           /\ validate_output /\ ~Contains(message, CmdRunAndFetchOutput(run).val)
    THEN Err("InvalidOutput")
    ELSE IF CmdRunAndFetchOutput(run).tag = "EmptyOutput" THEN Err("Io")
    ELSE CmdRunAndFetchOutput(run)

\* Dmenu::run_and_fetch_output without the test of line 58
DmenuRunAndFetchOutputUnvalidated(message, validate_output, run) ==
    IF CmdRunAndFetchOutput(run).tag = "EmptyOutput"
    THEN [tag |-> "Exit0", val |-> <<>>]
    ELSE CmdRunAndFetchOutput(run)

\* Dmenu::run_and_fetch_output; tag "Exit0" is process::exit(0)
DmenuRunAndFetchOutput(message, validate_output, run) ==
    LET r == CmdRunAndFetchOutput(run)
    IN  CASE r.tag = "EmptyOutput" -> [tag |-> "Exit0", val |-> <<>>]
          [] r.tag = "Ok" ->
                IF ~validate_output \/ Contains(message, r.val)
                THEN r
                ELSE Err("InvalidOutput")
          [] OTHER -> r

\* what the user types instead of selecting an option
Typed == {<<"\n">>, <<"a", "\n">>}

\* the labels the user of the model never selects: of the orientations only
\* Inverted is selected, of the positions only Center and Left of
NeverSelected ==
    {Str("Normal"), Str("Left"), Str("Right"), Str("Right of"), Str("Above"), Str("Below")}

\* the standard output dmenu can produce for a menu: nothing (Escape), a
\* selected option or typed text, each followed by a newline
PickerStdout(options) ==
    {<<>>} \cup {o \o <<"\n">> : o \in options \ NeverSelected} \cup Typed

\* every run of the picker for a menu, the labels of NeverSelected included
EveryPickerRun(options) ==
    {ProcessRun(FALSE, TRUE, 1, <<>>), ProcessRun(TRUE, FALSE, 0, <<>>)}
    \cup {ProcessRun(TRUE, TRUE, 0, out) :
              out \in {<<>>} \cup {o \o <<"\n">> : o \in options} \cup Typed}

\* the runs of the picker for a menu
PickerRuns(options) ==
    {ProcessRun(FALSE, TRUE, 1, <<>>), ProcessRun(TRUE, FALSE, 0, <<>>)}
    \cup {ProcessRun(TRUE, TRUE, 0, out) : out \in PickerStdout(options)}

----------------------------------------------------------------------------
(* Display backend, src/src/cli/xrandr.rs *)

\* the physical outputs of the machine; OutputD is never connected
OutputA == Str("A")
OutputB == Str("B")
OutputC == Str("C")
OutputD == Str("D")
Outputs == {OutputA, OutputB, OutputC, OutputD}

Res(h, w) == [height |-> h, width |-> w]
Hz(v) == [value |-> v]
OutputModesOf(resolutions, rates) == [resolutions |-> resolutions, rates |-> rates]

OneMode == OutputModesOf(<<Res(1280, 720)>>, <<Hz(60)>>)
FourModes == OutputModesOf(<<Res(1920, 1080), Res(1280, 720)>>, <<Hz(75), Hz(60)>>)
NoModes == OutputModesOf(<<>>, <<>>)

\* OutputModes::is_empty
OutputModesIsEmpty(modes) == modes.resolutions = <<>> \/ modes.rates = <<>>

\* Resolution::cmp: by height, then by width
ResolutionCmp(a, b) ==
    IF a.height # b.height
    THEN (IF a.height < b.height THEN "Less" ELSE "Greater")
    ELSE IF a.width < b.width THEN "Less"
    ELSE IF a.width > b.width THEN "Greater"
    ELSE "Equal"

\* Rate::cmp
RateCmp(a, b) ==
    IF a.value < b.value THEN "Less"
    ELSE IF a.value > b.value THEN "Greater"
    ELSE "Equal"

\* T::cmp of sort_and_filter_unique<T>, T being Resolution or Rate
Cmp(a, b) == IF "value" \in DOMAIN a THEN RateCmp(a, b) ELSE ResolutionCmp(a, b)

\* the place of `x` in a slice sorted by |a, b| b.cmp(a): before the first
\* element it is greater than, so that equal elements keep their order
RECURSIVE InsertDescending(_, _)
InsertDescending(sorted, x) ==
    IF sorted = <<>> THEN <<x>>
    ELSE IF Cmp(x, Head(sorted)) = "Greater" THEN <<x>> \o sorted
    ELSE <<Head(sorted)>> \o InsertDescending(Tail(sorted), x)

\* slice::sort_by(|a, b| b.cmp(a)): stable, descending
RECURSIVE SortDescending(_)
SortDescending(array) ==
    IF array = <<>> THEN <<>>
    ELSE InsertDescending(SortDescending(SubSeq(array, 1, Len(array) - 1)),
                          array[Len(array)])

\* Itertools::unique: the first occurrence of every element, in order
RECURSIVE Unique(_)
Unique(array) ==
    IF array = <<>> THEN <<>>
    ELSE LET front == Unique(SubSeq(array, 1, Len(array) - 1))
         IN  IF array[Len(array)] \in Range(front) THEN front
             ELSE Append(front, array[Len(array)])

\* sort_and_filter_unique without the call of unique
SortAndFilterUniqueKeepsDuplicates(array) == SortDescending(array)

\* sort_and_filter_unique
SortAndFilterUnique(array) == Unique(SortDescending(array))

\* OutputModes::remove_duplicates
RemoveDuplicates(modes) ==
    OutputModesOf(SortAndFilterUnique(modes.resolutions), SortAndFilterUnique(modes.rates))

\* the end of the longest run of digits of `s` that starts at `i`
\* (i - 1 when s[i] is no digit)
RECURSIVE DigitRunEnd(_, _)
DigitRunEnd(s, i) ==
    IF i <= Len(s) /\ IsDigit(s[i]) THEN DigitRunEnd(s, i + 1) ELSE i - 1

NoMatch == [ok |-> FALSE, last |-> 0, resolution |-> <<>>, rate |-> <<>>]

\* a match of (\d+x\d+) (\d+\.\d+)\n that starts at `i`, with its two groups;
\* every run of digits is followed by a character that is no digit, so the
\* greedy runs are the only way to match
MatchModeAt(s, i) ==
    LET h == DigitRunEnd(s, i)
        w == DigitRunEnd(s, h + 2)
        n == DigitRunEnd(s, w + 2)
        f == DigitRunEnd(s, n + 2)
    IN  IF /\ h >= i /\ h + 1 <= Len(s) /\ s[h + 1] = "x"
           /\ w >= h + 2 /\ w + 1 <= Len(s) /\ s[w + 1] = " "
           /\ n >= w + 2 /\ n + 1 <= Len(s) /\ s[n + 1] = "."
           /\ f >= n + 2 /\ f + 1 <= Len(s) /\ s[f + 1] = "\n"
        THEN [ok |-> TRUE, last |-> f + 1,
              resolution |-> SubSeq(s, i, w), rate |-> SubSeq(s, w + 2, f)]
        ELSE NoMatch

\* Regex::captures_iter: the leftmost matches from `i` on, none overlapping
RECURSIVE CapturesIter(_, _)
CapturesIter(s, i) ==
    IF i > Len(s) THEN <<>>
    ELSE IF MatchModeAt(s, i).ok
         THEN <<MatchModeAt(s, i)>> \o CapturesIter(s, MatchModeAt(s, i).last + 1)
         ELSE CapturesIter(s, i + 1)

\* the loop of OutputModes::from_str: add() for every match, up to the
\* first group that does not parse (the `?`)
RECURSIVE AddModes(_, _)
AddModes(modes, matches) ==
    IF matches = <<>> THEN [ok |-> TRUE, val |-> modes]
    ELSE LET resolution == ResolutionFromStr(Head(matches).resolution)
             rate == RateFromStr(Head(matches).rate)
         IN  IF ~resolution.ok \/ ~rate.ok THEN [ok |-> FALSE, val |-> NoModes]
             ELSE AddModes(OutputModesOf(Append(modes.resolutions, resolution.val),
                                         Append(modes.rates, rate.val)),
                           Tail(matches))

\* OutputModes::from_str
OutputModesFromStr(screen_settings) ==
    LET added == AddModes(NoModes, CapturesIter(screen_settings, 1))
    IN  IF added.ok THEN [ok |-> TRUE, val |-> RemoveDuplicates(added.val)] ELSE added

\* the maps Xrandr::get_output_modes returns in the model: no connected
\* output; OutputA alone, with two resolutions and two rates; OutputA and
\* OutputB with one mode each beside OutputC, none of whose lines the mode
\* pattern of OutputModes::from_str matches
ConnectedReports ==
    {EmptyMap,
     Put(EmptyMap, OutputA, FourModes),
     Put(Put(Put(EmptyMap, OutputA, OneMode), OutputB, OneMode), OutputC, NoModes)}

\* Xrandr::get_output_modes: an error of cmd::run_and_fetch_output, or a map
\* from the connected outputs that matched to their parsed modes
XrandrGetOutputModes ==
    {Err("Io"), Err("EmptyOutput")} \cup {Ok(m) : m \in ConnectedReports}

\* Xrandr::list_disconnected_outputs: an error of cmd::run_and_fetch_output
\* (EmptyOutput when grep finds no disconnected output), or the first word
\* of every line of the non-empty output: the outputs that were not
\* connected when the wizard started, with or without OutputA, unplugged since
XrandrListDisconnectedOutputs(connected) ==
    {Err("Io"), Err("EmptyOutput")}
    \cup {Ok(Outputs \ connected), Ok((Outputs \ connected) \cup {OutputA})}

\* what became of the backend in a step: it was not run, bash could not be
\* spawned, or `xrandr <args>` ended with exit status 0 or with another one
NotRun == "NotRun"
BackendOutcome(run) ==
    IF ~run.spawned THEN "SpawnFailed"
    ELSE IF run.status = 0 THEN "Succeeded" ELSE "Failed"

\* the runs of `xrandr <args>`
BackendRuns ==
    {ProcessRun(FALSE, TRUE, 1, <<>>), ProcessRun(TRUE, TRUE, 0, <<>>),
     ProcessRun(TRUE, TRUE, 1, <<>>)}

\* Xrandr::run_with_args
XrandrRunWithArgs(run) == CmdRun(run)

----------------------------------------------------------------------------
(* Layout catalog, src/src/config.rs *)

\* LayoutConfig::layout_names
LayoutNames(ls) ==
    {IF ls[n].is_current THEN n \o CHECK_SIGN ELSE n : n \in DOMAIN ls}

\* MarkLayoutAsCurrent that sets the marker of the named layout and leaves
\* the others as they are
MarkLayoutAsCurrentOnly(ls, layout_name) ==
    [n \in DOMAIN ls |-> IF n = layout_name THEN [ls[n] EXCEPT !.is_current = TRUE]
                                            ELSE ls[n]]

\* the loop of LayoutConfig::_mark_layout_as_current
MarkLayoutAsCurrent(ls, layout_name) ==
    [n \in DOMAIN ls |-> [ls[n] EXCEPT !.is_current = (n = layout_name)]]

\* the insert of LayoutConfig::add
ConfigAdd(ls, l) == Put(ls, l.name, l)

\* the remove of LayoutConfig::remove
ConfigRemove(ls, layout_name) == Remove(ls, layout_name)

\* LayoutConfig::_overwrite_config: the file after a write that succeeded, or
\* after one that failed once the file was truncated
OverwriteConfig(ls, old, written) == IF written THEN ls ELSE EmptyMap

\* ConfigApply without the test of line 125: the backend is run and the
\* layouts are marked whether or not the name is a key of the catalog
ConfigApplyUnchecked(ls, layout_name, run) ==
    IF XrandrRunWithArgs(run).tag = "Ok"
    THEN [layouts |-> MarkLayoutAsCurrent(ls, layout_name), res |-> "Ok",
          backend |-> BackendOutcome(run), write |-> TRUE]
    ELSE [layouts |-> ls, res |-> XrandrRunWithArgs(run).tag,
          backend |-> BackendOutcome(run), write |-> FALSE]

\* LayoutConfig::apply: the catalog afterwards, the result, what became of
\* the backend and whether the file was written
ConfigApply(ls, layout_name, run) ==
    IF layout_name \in DOMAIN ls
    THEN LET r == XrandrRunWithArgs(run)
         IN  IF r.tag = "Ok"
             THEN [layouts |-> MarkLayoutAsCurrent(ls, layout_name), res |-> "Ok",
                   backend |-> BackendOutcome(run), write |-> TRUE]
             ELSE [layouts |-> ls, res |-> r.tag, backend |-> BackendOutcome(run),
                   write |-> FALSE]
    ELSE [layouts |-> ls, res |-> "Ok", backend |-> NotRun, write |-> FALSE]

\* a layout of the configuration file read at startup
StoredLayout(name, current) ==
    [name |-> name,
     outputs |-> Put(Put(EmptyMap, OutputA,
                         [OutputNew EXCEPT !.name = OutputA,
                                           !.state = [tag |-> "Connected", ref |-> NoRef],
                                           !.mode = [resolution |-> Res(1280, 720),
                                                     rate |-> Hz(60)],
                                           !.is_primary = TRUE]),
                     OutputB, [OutputNew EXCEPT !.name = OutputB]),
     is_current |-> current]

\* LayoutConfig::try_from_toml: the catalogs the program starts with
InitialCatalogs ==
    {EmptyMap,
     Put(Put(EmptyMap, Str("a"), StoredLayout(Str("a"), FALSE)),
         Str("b"), StoredLayout(Str("b"), TRUE))}

----------------------------------------------------------------------------
(* Helpers of UI::create_layout, src/src/ui.rs *)

PRIMARY_NOT_SELECTED == FALSE
PRIMARY_SELECTED == TRUE

\* PrimarySelected without lines 243-245: the flag is never raised
PrimarySelectedNeverRaised(selected, is_primary) == selected

\* create_layout, lines 243-245: is_primary_selected after an output was
\* given is_primary
PrimarySelected(selected, is_primary) ==
    IF is_primary THEN PRIMARY_SELECTED ELSE selected

\* OtherOutputs without the filter: every connected output
OtherOutputsUnfiltered(connected, name) == connected

\* AfterSelectLayoutName without the test of line 196
AfterSelectLayoutNameEmptyAccepted(name, ls) ==
    IF name \in DOMAIN ls THEN "does_override_existing_layout" ELSE "select_output_name"

\* AfterSelectLayoutName without the test of line 200
AfterSelectLayoutNameNoConfirmation(name, ls) ==
    IF name = EmptyString THEN "layout_name_should_not_be_empty" ELSE "select_output_name"

\* create_layout, lines 196-204: where the wizard goes with the name entered,
\* ls being the catalog
AfterSelectLayoutName(name, ls) ==
    CASE name = EmptyString -> "layout_name_should_not_be_empty"
      [] name \in DOMAIN ls -> "does_override_existing_layout"
      [] OTHER -> "select_output_name"

\* create_layout, lines 218-222: the connected outputs other than `name`
OtherOutputs(connected, name) == {n \in connected : n # name}

----------------------------------------------------------------------------
(* The program: UI (src/src/ui.rs) driven by app::run (src/src/app.rs) *)

VARIABLES
    pc,                   \* the prompt or call the program is at
    option,               \* the StartOption UI::start is serving
    wizards,              \* runs of the wizard so far
    layouts,              \* LayoutConfig.layouts
    file,                 \* the catalog in the configuration file
    output_modes,         \* create_layout: the pool of outputs not yet assigned
    outputs_connected,    \* create_layout: the outputs of the catalog
    relative_outputs,     \* create_layout: output |-> its position reference
    is_primary_selected,  \* create_layout
    layout,               \* create_layout: the layout being built
    output,               \* create_layout: the output being configured
    other_outputs,        \* create_layout: outputs_connected without output.name
    position,             \* select_position: the chosen position label
    disconnected,         \* create_layout: what list_disconnected_outputs returned
    layout_name,          \* apply_layout / remove_layout: the chosen layout
    ev,                   \* what the last step did
    input,                \* a conversion on its own: the text or value given to it
    result                \* a conversion on its own: what it returned

vars == <<pc, option, wizards, layouts, file, output_modes, outputs_connected,
          relative_outputs, is_primary_selected, layout, output, other_outputs,
          position, disconnected, layout_name, ev, input, result>>

wizard == <<output_modes, outputs_connected, relative_outputs, is_primary_selected,
            layout, output, other_outputs, position, disconnected>>

Event(op, res, val, backend, write) ==
    [op |-> op, res |-> res, val |-> val, backend |-> backend, write |-> write]

\* no conversion is run on its own
NoConversion == [kind |-> "none"]

\* the locals of UI before the first prompt
Idle ==
    /\ option = "None"
    /\ wizards = 0
    /\ file = layouts
    /\ output_modes = EmptyMap
    /\ outputs_connected = {}
    /\ relative_outputs = EmptyMap
    /\ is_primary_selected = PRIMARY_NOT_SELECTED
    /\ layout = LayoutNew
    /\ output = OutputNew
    /\ other_outputs = {}
    /\ position = EmptyString
    /\ disconnected = {}
    /\ layout_name = EmptyString
    /\ ev = Event("new", "Ok", <<>>, NotRun, FALSE)

Init ==
    /\ pc = "choose_start_option"
    /\ layouts \in InitialCatalogs
    /\ Idle
    /\ input = NoConversion
    /\ result = NoConversion

\* the locals of create_layout once it is left
WizardLeft ==
    /\ output_modes' = EmptyMap
    /\ outputs_connected' = {}
    /\ relative_outputs' = EmptyMap
    /\ is_primary_selected' = PRIMARY_NOT_SELECTED
    /\ layout' = LayoutNew
    /\ output' = OutputNew
    /\ other_outputs' = {}
    /\ position' = EmptyString
    /\ disconnected' = {}

\* the process ends with `status`: process::exit(0), or an error that
\* main reports with exit_err!
Exit(status, res, backend, write) ==
    /\ pc' = status
    /\ WizardLeft
    /\ ev' = Event(pc, res, <<>>, backend, write)
    /\ UNCHANGED <<option, wizards, layout_name>>

YesNo == {Str("No"), Str("Yes")}

StartOptionLabels ==
    <<Str("Apply Layout"), Str("Remove Layout"), Str("New Layout"), Str("Exit")>>

\* impl From<String> for StartOption
StartOptionFrom(action) ==
    CASE action = Str("New Layout") -> "NewLayout"
      [] action = Str("Remove Layout") -> "RemoveLayout"
      [] action = Str("Exit") -> "Exit"
      [] action = Str("Apply Layout") -> "ApplyLayout"
      [] OTHER -> "FATAL"

\* OutputsForRelativePosition without the filter of lines 139-145
OutputsForRelativePositionUnfiltered == other_outputs

\* the candidates of select_position: the other outputs that have no recorded
\* reference, or whose recorded reference is the output being configured
OutputsForRelativePosition ==
    {n \in other_outputs :
        IF n \in DOMAIN relative_outputs THEN relative_outputs[n] = output.name ELSE TRUE}

\* Positions without the test of line 148
PositionsAlwaysAll == VecFromEnum(PositionLabels)

\* the position labels select_position offers
Positions ==
    IF OutputsForRelativePosition # {}
    THEN VecFromEnum(PositionLabels)
    ELSE {Str("Center")}

NoMessage == Message({}, <<>>, FALSE)

\* the Message of the prompt at pc, and whether its answer is validated
\* (run_until_output_not_matched) or taken as typed (run_and_fetch_output)
Prompt ==
    CASE pc = "choose_start_option" ->
            Message(VecFromEnum(StartOptionLabels), <<"Choose an option:">>, TRUE)
      [] pc = "select_layout_name" ->
            Message(LayoutNames(layouts), <<"What is the name of a new layout?">>, FALSE)
      [] pc = "layout_name_should_not_be_empty" ->
            Message({}, <<"Layout name should not be empty string">>, FALSE)
      [] pc = "does_override_existing_layout" ->
            Message(YesNo, <<"Do you really want to overwrite existing layout:">>
                           \o layout.name, TRUE)
      [] pc = "select_output_name" ->
            Message(DOMAIN output_modes, <<"What screen to connect?">>, TRUE)
      [] pc = "select_state" ->
            Message(VecFromEnum(StateLabels), <<"Choose state:">>, TRUE)
      [] pc = "select_duplicated_screen" ->
            Message(other_outputs, <<"Choose duplicated screen:">>, TRUE)
      [] pc = "select_resolution" ->
            Message(Resolutions(output_modes[output.name]), <<"Choose resolution:">>, TRUE)
      [] pc = "select_rate" ->
            Message(Rates(output_modes[output.name]), <<"Choose rate:">>, TRUE)
      [] pc = "select_orientation" ->
            Message(VecFromEnum(OrientationLabels), <<"Choose orientation:">>, TRUE)
      [] pc = "select_position" ->
            Message(Positions, <<"Choose position:">>, TRUE)
      [] pc = "select_relative_screen" ->
            Message(OutputsForRelativePosition, <<"Choose relative screen:">>, TRUE)
      [] pc = "does_make_output_primary" ->
            Message(YesNo, <<"Make screen">> \o output.name \o <<"primary?">>, TRUE)
      [] pc = "does_add_another_screen" ->
            Message(YesNo, <<"Add another screen?">>, TRUE)
      [] pc = "does_apply_new_layout" ->
            Message(YesNo, <<"Apply new layout?">>, TRUE)
      [] pc = "does_create_layout" ->
            Message(YesNo, <<"You don't have any layouts yet. Create one?">>, TRUE)
      [] pc = "choose_layout" ->
            Message(LayoutNames(layouts), <<"Choose layout:">>, TRUE)
      [] pc = "confirm_remove" ->
            Message(YesNo, <<"Do you really want to remove layout">> \o layout_name, TRUE)
      [] OTHER -> NoMessage

\* one round of the prompt at pc: one iteration of the loop of
\* run_until_output_not_matched, or the one call of run_and_fetch_output
Reply(run) == DmenuRunAndFetchOutput(Prompt, Prompt.validate, run)

\* a round that returns no value: the process exits (empty output), the
\* prompt is issued again (InvalidOutput), or the error is propagated
Interrupted(r) ==
    \/ /\ r.tag = "Exit0"
       /\ Exit("exit_0", "Exit0", NotRun, FALSE)
       /\ UNCHANGED <<layouts, file>>
    \/ /\ r.tag = "InvalidOutput"
       /\ ev' = Event(pc, "InvalidOutput", <<>>, NotRun, FALSE)
       /\ UNCHANGED <<pc, option, wizards, layouts, file, layout_name, wizard>>
    \/ /\ r.tag \in {"Io", "Utf8"}
       /\ Exit("exit_1", r.tag, NotRun, FALSE)
       /\ UNCHANGED <<layouts, file>>

\* the prompt returned `val` and the program goes on at `next`
Goto(next, val) ==
    /\ pc' = next
    /\ ev' = Event(pc, "Ok", val, NotRun, FALSE)

\* create_layout returns Ok to its caller: UI::start (the next round of
\* app::run), or ask_and_create_layout_if_yes, after which choose_layout
\* returns the empty string to apply_layout or remove_layout
Return(val, backend, write) ==
    /\ WizardLeft
    /\ ev' = Event(pc, "Ok", val, backend, write)
    /\ UNCHANGED wizards
    /\ layout_name' = EmptyString
    /\ CASE option = "ApplyLayout" -> pc' = "apply_layout" /\ UNCHANGED option
         [] option = "RemoveLayout" -> pc' = "confirm_remove" /\ UNCHANGED option
         [] OTHER -> pc' = "choose_start_option" /\ option' = "None"

----------------------------------------------------------------------------
(* UI::start and the catalog operations *)

\* choose_layout when the catalog is empty, and after create_layout: the
\* empty string goes to LayoutConfig::apply or to the removal confirmation
AfterChooseLayout == IF option = "ApplyLayout" THEN "apply_layout" ELSE "confirm_remove"

\* UI::start / UI::choose_start_option
ChooseStartOption ==
    /\ pc = "choose_start_option"
    /\ UNCHANGED <<input, result>>
    /\ \E run \in PickerRuns(Prompt.prompt) :
        LET r == Reply(run)
            o == StartOptionFrom(r.val)
        IN  \/ Interrupted(r)
            \/ /\ r.tag = "Ok"
               /\ o = "FATAL"
               /\ Exit("exit_1", "Fatal", NotRun, FALSE)
               /\ UNCHANGED <<layouts, file>>
            \/ /\ r.tag = "Ok"
               /\ o = "Exit"
               /\ WizardLeft
               /\ Goto("exit_0", r.val)
               /\ UNCHANGED <<option, wizards, layouts, file, layout_name>>
            \/ /\ r.tag = "Ok"
               /\ o \in {"NewLayout", "ApplyLayout", "RemoveLayout"}
               /\ o = "NewLayout" => wizards < MaxWizards
               /\ option' = o
               /\ wizards' = IF o = "NewLayout" THEN wizards + 1 ELSE wizards
               /\ Goto(CASE o = "NewLayout" -> "create_layout"
                         [] layouts = EmptyMap -> "does_create_layout"
                         [] OTHER -> "choose_layout", r.val)
               /\ UNCHANGED <<layouts, file, layout_name, wizard>>

\* UI::choose_layout, the catalog not empty
ChooseLayout ==
    /\ pc = "choose_layout"
    /\ UNCHANGED <<input, result>>
    /\ \E run \in PickerRuns(Prompt.prompt) :
        LET r == Reply(run)
        IN  \/ Interrupted(r)
            \/ /\ r.tag = "Ok"
               /\ layout_name' = ReplaceCheckSign(r.val)
               /\ Goto(AfterChooseLayout, r.val)
               /\ UNCHANGED <<option, wizards, layouts, file, wizard>>

\* UI::ask_and_create_layout_if_yes / UI::does_create_layout
DoesCreateLayout ==
    /\ pc = "does_create_layout"
    /\ UNCHANGED <<input, result>>
    /\ \E run \in PickerRuns(Prompt.prompt) :
        LET r == Reply(run)
        IN  \/ Interrupted(r)
            \/ /\ r.tag = "Ok"
               /\ r.val = Str("Yes")
               /\ wizards < MaxWizards
               /\ wizards' = wizards + 1
               /\ Goto("create_layout", r.val)
               /\ UNCHANGED <<option, layouts, file, layout_name, wizard>>
            \/ /\ r.tag = "Ok"
               /\ r.val # Str("Yes")
               /\ layout_name' = EmptyString
               /\ Goto(AfterChooseLayout, r.val)
               /\ UNCHANGED <<option, wizards, layouts, file, wizard>>

\* UI::apply_layout: LayoutConfig::apply(layout_name), then process::exit(0)
ApplyLayout ==
    /\ pc = "apply_layout"
    /\ UNCHANGED <<input, result>>
    /\ \E run \in BackendRuns, written \in BOOLEAN :
        LET a == ConfigApply(layouts, layout_name, run)
        IN  /\ layouts' = a.layouts
            /\ file' = IF a.write THEN OverwriteConfig(a.layouts, file, written) ELSE file
            /\ a.write \/ written
            /\ IF a.res = "Ok" /\ written
               THEN Exit("exit_0", "Ok", a.backend, a.write)
               ELSE Exit("exit_1", IF a.res = "Ok" THEN "Persist" ELSE a.res,
                         a.backend, a.write)

\* UI::remove_layout after choose_layout: the confirmation and LayoutConfig::remove
ConfirmRemove ==
    /\ pc = "confirm_remove"
    /\ UNCHANGED <<input, result>>
    /\ \E run \in PickerRuns(Prompt.prompt), written \in BOOLEAN :
        LET r == Reply(run)
        IN  \/ /\ written
               /\ Interrupted(r)
            \/ /\ r.tag = "Ok"
               /\ r.val = Str("Yes")
               /\ layouts' = ConfigRemove(layouts, layout_name)
               /\ file' = OverwriteConfig(layouts', file, written)
               /\ IF written
                  THEN /\ pc' = "choose_start_option"
                       /\ option' = "None"
                       /\ layout_name' = EmptyString
                       /\ ev' = Event(pc, "Ok", r.val, NotRun, TRUE)
                       /\ UNCHANGED <<wizards, wizard>>
                  ELSE Exit("exit_1", "Persist", NotRun, TRUE)
            \/ /\ r.tag = "Ok"
               /\ r.val # Str("Yes")
               /\ written
               /\ option' = "None"
               /\ layout_name' = EmptyString
               /\ Goto("choose_start_option", r.val)
               /\ UNCHANGED <<wizards, layouts, file, wizard>>

----------------------------------------------------------------------------
(* UI::create_layout *)

\* create_layout, lines 183-193: the query of the connected outputs and the
\* fresh locals; also the re-entry `return self.create_layout()`
CreateLayout ==
    /\ pc = "create_layout"
    /\ UNCHANGED <<input, result>>
    /\ \E res \in XrandrGetOutputModes :
        \/ /\ res.tag # "Ok"
           /\ Exit("exit_1", res.tag, NotRun, FALSE)
           /\ UNCHANGED <<layouts, file>>
        \/ /\ res.tag = "Ok"
           /\ output_modes' = res.val
           /\ outputs_connected' = DOMAIN res.val
           /\ relative_outputs' = EmptyMap
           /\ is_primary_selected' = PRIMARY_NOT_SELECTED
           /\ layout' = LayoutNew
           /\ output' = OutputNew
           /\ other_outputs' = {}
           /\ position' = EmptyString
           /\ disconnected' = {}
           /\ Goto(IF DOMAIN res.val = {} THEN "no_monitors" ELSE "select_layout_name", <<>>)
           /\ UNCHANGED <<option, wizards, layouts, file, layout_name>>

\* create_layout, lines 185-189: Dmenu::run of the message, then return
NoMonitors ==
    /\ pc = "no_monitors"
    /\ UNCHANGED <<input, result>>
    /\ \E run \in {ProcessRun(FALSE, TRUE, 1, <<>>), ProcessRun(TRUE, TRUE, 0, <<>>)} :
        /\ IF CmdRun(run).tag = "Ok"
           THEN Return(<<>>, NotRun, FALSE)
           ELSE Exit("exit_1", CmdRun(run).tag, NotRun, FALSE)
        /\ UNCHANGED <<layouts, file>>

\* UI::select_layout_name and the tests of lines 196 and 200
SelectLayoutName ==
    /\ pc = "select_layout_name"
    /\ UNCHANGED <<input, result>>
    /\ \E run \in PickerRuns(Prompt.prompt) :
        LET r == Reply(run)
            name == ReplaceCheckSign(r.val)
        IN  \/ Interrupted(r)
            \/ /\ r.tag = "Ok"
               /\ layout' = [layout EXCEPT !.name = name]
               /\ Goto(AfterSelectLayoutName(name, layouts), r.val)
               /\ UNCHANGED <<option, wizards, layouts, file, layout_name, output_modes,
                              outputs_connected, relative_outputs, is_primary_selected,
                              output, other_outputs, position, disconnected>>

\* UI::layout_name_should_not_be_empty, then `return self.create_layout()`
LayoutNameShouldNotBeEmpty ==
    /\ pc = "layout_name_should_not_be_empty"
    /\ UNCHANGED <<input, result>>
    /\ \E run \in PickerRuns(Prompt.prompt) :
        LET r == Reply(run)
        IN  \/ Interrupted(r)
            \/ /\ r.tag = "Ok"
               /\ WizardLeft
               /\ Goto("create_layout", r.val)
               /\ UNCHANGED <<option, wizards, layouts, file, layout_name>>

\* CatalogAfterConfirmation with the layout removed as soon as the overwrite
\* is confirmed
CatalogWithoutConfirmed(ls, name) == ConfigRemove(ls, name)

\* create_layout, lines 200-204: the confirmation of the overwrite calls
\* config.get only, the catalog stays as it is
CatalogAfterConfirmation(ls, name) == ls

\* UI::does_override_existing_layout
DoesOverrideExistingLayout ==
    /\ pc = "does_override_existing_layout"
    /\ UNCHANGED <<input, result>>
    /\ \E run \in PickerRuns(Prompt.prompt) :
        LET r == Reply(run)
        IN  \/ Interrupted(r)
            \/ /\ r.tag = "Ok"
               /\ r.val = Str("Yes")
               /\ layouts' = CatalogAfterConfirmation(layouts, layout.name)
               /\ Goto("select_output_name", r.val)
               /\ UNCHANGED <<option, wizards, file, layout_name, wizard>>
            \/ /\ r.tag = "Ok"
               /\ r.val # Str("Yes")
               /\ WizardLeft
               /\ Goto("create_layout", r.val)
               /\ UNCHANGED <<option, wizards, layouts, file, layout_name>>

\* UI::select_output_name and the filter of lines 218-222
SelectOutputName ==
    /\ pc = "select_output_name"
    /\ UNCHANGED <<input, result>>
    /\ \E run \in PickerRuns(Prompt.prompt) :
        LET r == Reply(run)
        IN  \/ Interrupted(r)
            \/ /\ r.tag = "Ok"
               /\ output' = [OutputNew EXCEPT !.name = r.val]
               /\ other_outputs' = OtherOutputs(outputs_connected, r.val)
               /\ Goto("select_state", r.val)
               /\ UNCHANGED <<option, wizards, layouts, file, layout_name, output_modes,
                              outputs_connected, relative_outputs, is_primary_selected,
                              layout, position, disconnected>>

\* PoolWithout without the removal of line 248
PoolKept(pool, name) == pool

\* create_layout, line 248: output_modes.remove(&output.name)
PoolWithout(pool, name) == Remove(pool, name)

\* LoopEnds without the test output_modes.is_empty() of line 251
LoopEndsOnlyOnNo(pool) == FALSE

\* create_layout, line 251: the loop ends without a question when no
\* output is left in the pool
LoopEnds(pool) == DOMAIN pool = {}

\* create_layout, lines 248-257: the output is taken from the pool and moved
\* into the layout, which ends the iteration and the life of its locals; the
\* loop ends when the pool is empty, and a layout without outputs is
\* abandoned (pc "abandoned": create_layout returns Ok)
EndOfIteration(o, primary_selected, val) ==
    /\ is_primary_selected' = primary_selected
    /\ output_modes' = PoolWithout(output_modes, o.name)
    /\ layout' = LayoutAdd(layout, o)
    /\ output' = OutputNew
    /\ other_outputs' = {}
    /\ position' = EmptyString
    /\ Goto(IF ~LoopEnds(output_modes') THEN "does_add_another_screen"
            ELSE IF LayoutIsEmpty(layout') THEN "abandoned"
            ELSE "list_disconnected_outputs", val)
    /\ UNCHANGED <<option, wizards, layouts, file, layout_name, outputs_connected,
                   disconnected>>

\* create_layout, lines 241-245: the primary question is asked only when no
\* output of this layout is primary yet
PrimaryStep(o, val) ==
    IF ~is_primary_selected
    THEN /\ output' = o
         /\ Goto("does_make_output_primary", val)
         /\ UNCHANGED <<option, wizards, layouts, file, layout_name, output_modes,
                        outputs_connected, is_primary_selected, layout, other_outputs,
                        position, disconnected>>
    ELSE EndOfIteration([o EXCEPT !.is_primary = FALSE], is_primary_selected, val)

\* SkipsOutputPrompts without the test of line 226
SkipsOutputPromptsNever(state) == FALSE

\* create_layout, line 226: the prompts of lines 227-245 are not issued for
\* an output whose state is Disconnected
SkipsOutputPrompts(state) == state.tag = "Disconnected"

\* UI::select_state, the state prompt
SelectState ==
    /\ pc = "select_state"
    /\ UNCHANGED <<input, result>>
    /\ \E run \in PickerRuns(Prompt.prompt) :
        LET r == Reply(run)
            state == StateFrom(r.val, None)
        IN  \/ Interrupted(r)
            \/ /\ r.tag = "Ok"
               /\ r.val = Str("Duplicated")
               /\ Goto("select_duplicated_screen", r.val)
               /\ UNCHANGED <<option, wizards, layouts, file, layout_name, wizard>>
            \/ /\ r.tag = "Ok"
               /\ r.val # Str("Duplicated")
               /\ state = Fatal
               /\ Exit("exit_1", "Fatal", NotRun, FALSE)
               /\ UNCHANGED <<layouts, file>>
            \/ /\ r.tag = "Ok"
               /\ r.val # Str("Duplicated")
               /\ state # Fatal
               /\ SkipsOutputPrompts(state)
               /\ EndOfIteration([output EXCEPT !.state = state], is_primary_selected, r.val)
               /\ UNCHANGED relative_outputs
            \/ /\ r.tag = "Ok"
               /\ r.val # Str("Duplicated")
               /\ state # Fatal
               /\ ~SkipsOutputPrompts(state)
               /\ output' = [output EXCEPT !.state = state]
               /\ Goto("select_resolution", r.val)
               /\ UNCHANGED <<option, wizards, layouts, file, layout_name, output_modes,
                              outputs_connected, relative_outputs, is_primary_selected,
                              layout, other_outputs, position, disconnected>>

\* UI::select_state, the prompt for the duplicated screen
SelectDuplicatedScreen ==
    /\ pc = "select_duplicated_screen"
    /\ UNCHANGED <<input, result>>
    /\ \E run \in PickerRuns(Prompt.prompt) :
        LET r == Reply(run)
        IN  \/ Interrupted(r)
            \/ /\ r.tag = "Ok"
               /\ output' = [output EXCEPT !.state = StateFrom(Str("Duplicated"), Some(r.val))]
               /\ Goto("select_resolution", r.val)
               /\ UNCHANGED <<option, wizards, layouts, file, layout_name, output_modes,
                              outputs_connected, relative_outputs, is_primary_selected,
                              layout, other_outputs, position, disconnected>>

\* UI::select_resolution
SelectResolution ==
    /\ pc = "select_resolution"
    /\ UNCHANGED <<input, result>>
    /\ \E run \in PickerRuns(Prompt.prompt) :
        LET r == Reply(run)
            resolution == ResolutionFromStr(r.val)
        IN  \/ Interrupted(r)
            \/ /\ r.tag = "Ok"
               /\ ~resolution.ok
               /\ Exit("exit_1", "Fatal", NotRun, FALSE)
               /\ UNCHANGED <<layouts, file>>
            \/ /\ r.tag = "Ok"
               /\ resolution.ok
               /\ output' = [output EXCEPT !.mode.resolution = resolution.val]
               /\ Goto("select_rate", r.val)
               /\ UNCHANGED <<option, wizards, layouts, file, layout_name, output_modes,
                              outputs_connected, relative_outputs, is_primary_selected,
                              layout, other_outputs, position, disconnected>>

\* UI::select_rate
SelectRate ==
    /\ pc = "select_rate"
    /\ UNCHANGED <<input, result>>
    /\ \E run \in PickerRuns(Prompt.prompt) :
        LET r == Reply(run)
            rate == RateFromStr(r.val)
        IN  \/ Interrupted(r)
            \/ /\ r.tag = "Ok"
               /\ ~rate.ok
               /\ Exit("exit_1", "Fatal", NotRun, FALSE)
               /\ UNCHANGED <<layouts, file>>
            \/ /\ r.tag = "Ok"
               /\ rate.ok
               /\ output' = [output EXCEPT !.mode.rate = rate.val]
               /\ Goto("select_orientation", r.val)
               /\ UNCHANGED <<option, wizards, layouts, file, layout_name, output_modes,
                              outputs_connected, relative_outputs, is_primary_selected,
                              layout, other_outputs, position, disconnected>>

\* RunsSelectPosition with the test `!matches!(output.state, State::Disconnected)`
RunsSelectPositionUnlessDisconnected(o) == o.state.tag # "Disconnected"

\* create_layout, line 237: select_position is called for this output
RunsSelectPosition(o) == o.state.tag = "Connected"

\* UI::select_orientation, then lines 237-245
SelectOrientation ==
    /\ pc = "select_orientation"
    /\ UNCHANGED <<input, result>>
    /\ \E run \in PickerRuns(Prompt.prompt) :
        LET r == Reply(run)
            orientation == OrientationFrom(r.val)
            o == [output EXCEPT !.orientation = orientation]
        IN  \/ Interrupted(r)
            \/ /\ r.tag = "Ok"
               /\ orientation = "FATAL"
               /\ Exit("exit_1", "Fatal", NotRun, FALSE)
               /\ UNCHANGED <<layouts, file>>
            \/ /\ r.tag = "Ok"
               /\ orientation # "FATAL"
               /\ RunsSelectPosition(o)
               /\ output' = o
               /\ Goto("select_position", r.val)
               /\ UNCHANGED <<option, wizards, layouts, file, layout_name, output_modes,
                              outputs_connected, relative_outputs, is_primary_selected,
                              layout, other_outputs, position, disconnected>>
            \/ /\ r.tag = "Ok"
               /\ orientation # "FATAL"
               /\ ~RunsSelectPosition(o)
               /\ PrimaryStep(o, r.val)
               /\ UNCHANGED relative_outputs

\* UI::select_position, the position prompt (lines 136-155)
SelectPosition ==
    /\ pc = "select_position"
    /\ UNCHANGED <<input, result>>
    /\ \E run \in PickerRuns(Prompt.prompt) :
        LET r == Reply(run)
        IN  \/ Interrupted(r)
            \/ /\ r.tag = "Ok"
               /\ r.val # Str("Center")
               /\ position' = r.val
               /\ Goto("select_relative_screen", r.val)
               /\ UNCHANGED <<option, wizards, layouts, file, layout_name, output_modes,
                              outputs_connected, relative_outputs, is_primary_selected,
                              layout, output, other_outputs, disconnected>>
            \/ /\ r.tag = "Ok"
               /\ r.val = Str("Center")
               /\ PrimaryStep([output EXCEPT !.position = PositionFrom(r.val, None)], r.val)
               /\ UNCHANGED relative_outputs

\* UI::select_position, the prompt for the relative screen (lines 156-168),
\* then lines 241-245
SelectRelativeScreen ==
    /\ pc = "select_relative_screen"
    /\ UNCHANGED <<input, result>>
    /\ \E run \in PickerRuns(Prompt.prompt) :
        LET r == Reply(run)
            p == PositionFrom(position, Some(r.val))
        IN  \/ Interrupted(r)
            \/ /\ r.tag = "Ok"
               /\ relative_outputs' = Put(relative_outputs, output.name, r.val)
               /\ PrimaryStep([output EXCEPT !.position = p], r.val)

\* UI::does_make_output_primary and lines 241-254
DoesMakeOutputPrimary ==
    /\ pc = "does_make_output_primary"
    /\ UNCHANGED <<input, result>>
    /\ \E run \in PickerRuns(Prompt.prompt) :
        LET r == Reply(run)
            is_primary == ~is_primary_selected /\ r.val = Str("Yes")
        IN  \/ Interrupted(r)
            \/ /\ r.tag = "Ok"
               /\ EndOfIteration([output EXCEPT !.is_primary = is_primary],
                                 PrimarySelected(is_primary_selected, is_primary), r.val)
               /\ UNCHANGED relative_outputs

\* UI::does_add_another_screen (line 251)
DoesAddAnotherScreen ==
    /\ pc = "does_add_another_screen"
    /\ UNCHANGED <<input, result>>
    /\ \E run \in PickerRuns(Prompt.prompt) :
        LET r == Reply(run)
        IN  \/ Interrupted(r)
            \/ /\ r.tag = "Ok"
               /\ Goto(IF r.val = Str("Yes") THEN "select_output_name"
                       ELSE IF LayoutIsEmpty(layout) THEN "abandoned"
                       ELSE "list_disconnected_outputs", r.val)
               /\ UNCHANGED <<option, wizards, layouts, file, layout_name, wizard>>

\* AddDisconnected without the `name:` of line 264: every output is added
\* as Output::new() itself
AddDisconnectedUnnamed(l, names) ==
    IF names = {} THEN l ELSE LayoutAdd(l, OutputNew)

\* the loop of lines 259-267: every name is added as a new, default output
RECURSIVE AddDisconnected(_, _)
AddDisconnected(l, names) ==
    IF names = {} THEN l
    ELSE LET n == CHOOSE x \in names : TRUE
         IN  AddDisconnected(LayoutAdd(l, [OutputNew EXCEPT !.name = n]), names \ {n})

\* create_layout, lines 258-270: the outputs left in the pool and the
\* disconnected outputs are added, and the layout is put into the catalog
ListDisconnectedOutputs ==
    /\ pc = "list_disconnected_outputs"
    /\ UNCHANGED <<input, result>>
    /\ \E res \in XrandrListDisconnectedOutputs(outputs_connected), written \in BOOLEAN :
        \/ /\ res.tag # "Ok"
           /\ written
           /\ Exit("exit_1", res.tag, NotRun, FALSE)
           /\ UNCHANGED <<layouts, file>>
        \/ /\ res.tag = "Ok"
           /\ ~written
           /\ layouts' = ConfigAdd(layouts,
                                   AddDisconnected(layout, (DOMAIN output_modes) \cup res.val))
           /\ file' = OverwriteConfig(layouts', file, written)
           /\ Exit("exit_1", "Persist", NotRun, TRUE)
        \/ /\ res.tag = "Ok"
           /\ written
           /\ disconnected' = res.val
           /\ layout' = AddDisconnected(layout, (DOMAIN output_modes) \cup res.val)
           /\ layouts' = ConfigAdd(layouts, layout')
           /\ file' = OverwriteConfig(layouts', file, written)
           /\ pc' = "does_apply_new_layout"
           /\ ev' = Event(pc, "Ok", <<>>, NotRun, TRUE)
           /\ UNCHANGED <<option, wizards, layout_name, output_modes, outputs_connected,
                          relative_outputs, is_primary_selected, output, other_outputs,
                          position>>

\* UI::does_apply_new_layout (line 271)
DoesApplyNewLayout ==
    /\ pc = "does_apply_new_layout"
    /\ UNCHANGED <<input, result>>
    /\ \E run \in PickerRuns(Prompt.prompt) :
        LET r == Reply(run)
        IN  \/ Interrupted(r)
            \/ /\ r.tag = "Ok"
               /\ r.val = Str("Yes")
               /\ Goto("apply_new_layout", r.val)
               /\ UNCHANGED <<option, wizards, layouts, file, layout_name, wizard>>
            \/ /\ r.tag = "Ok"
               /\ r.val # Str("Yes")
               /\ Return(r.val, NotRun, FALSE)
               /\ UNCHANGED <<layouts, file>>

\* create_layout, line 272: LayoutConfig::apply(layout.name), then return
ApplyNewLayout ==
    /\ pc = "apply_new_layout"
    /\ UNCHANGED <<input, result>>
    /\ \E run \in BackendRuns, written \in BOOLEAN :
        LET a == ConfigApply(layouts, layout.name, run)
        IN  /\ layouts' = a.layouts
            /\ file' = IF a.write THEN OverwriteConfig(a.layouts, file, written) ELSE file
            /\ a.write \/ written
            /\ IF a.res = "Ok" /\ written
               THEN Return(<<>>, a.backend, a.write)
               ELSE Exit("exit_1", IF a.res = "Ok" THEN "Persist" ELSE a.res,
                         a.backend, a.write)

----------------------------------------------------------------------------

Next ==
    \/ ChooseStartOption
    \/ ChooseLayout
    \/ DoesCreateLayout
    \/ ApplyLayout
    \/ ConfirmRemove
    \/ CreateLayout
    \/ NoMonitors
    \/ SelectLayoutName
    \/ LayoutNameShouldNotBeEmpty
    \/ DoesOverrideExistingLayout
    \/ SelectOutputName
    \/ SelectState
    \/ SelectDuplicatedScreen
    \/ SelectResolution
    \/ SelectRate
    \/ SelectOrientation
    \/ SelectPosition
    \/ SelectRelativeScreen
    \/ DoesMakeOutputPrimary
    \/ DoesAddAnotherScreen
    \/ ListDisconnectedOutputs
    \/ DoesApplyNewLayout
    \/ ApplyNewLayout

Spec == Init /\ [][Next]_vars

----------------------------------------------------------------------------
(* The conversions of src/src/screen.rs, each called once on an input *)

\* the parts of the resolution texts: empty, zero, numbers up to the
\* largest u16 and past it, a letter, a signed number, a leading zero
Parts ==
    {<<>>, <<"0">>, <<"1">>, NatToString(720), NatToString(U16Max),
     NatToString(U16Max + 1), <<"a">>, <<"+", "1">>, <<"0", "7">>}

\* the text whose split('x') is `parts`
RECURSIVE JoinX(_)
JoinX(parts) ==
    IF Len(parts) = 1 THEN parts[1]
    ELSE parts[1] \o <<"x">> \o JoinX(Tail(parts))

\* the arguments of Resolution::from_str
ResolutionTexts == {JoinX(parts) : parts \in UNION {[1..k -> Parts] : k \in 1..MaxParts}}

\* the values of Resolution (two u16)
ResolutionValues == {Res(h, w) : h, w \in {0, 1, 720, U16Max}}

\* the line `<resolution> <rate>` of a capability text
ModeLine(height, width, rate) ==
    NatToString(height) \o <<"x">> \o NatToString(width) \o <<" ">> \o rate \o <<"\n">>

\* the lines of the capability texts: the line that names the output, modes
\* with equal and with different resolutions and rates, an interlaced mode
\* and a mode too large for a u16
ModeLines ==
    {<<"A", " ", "connected", "\n">>,
     ModeLine(1920, 1080, <<"6", "0", ".", "0", "0">>),
     ModeLine(1920, 1080, <<"5", "9", ".", "9", "4">>),
     ModeLine(1280, 720, <<"6", "0", ".", "0", "0">>),
     ModeLine(1280, 1024, <<"7", "5", ".", "0", "3">>),
     NatToString(1920) \o <<"x">> \o NatToString(1080)
         \o <<"i", " ", "6", "0", ".", "0", "0", "\n">>,
     ModeLine(U16Max + 1, 1, <<"6", "0", ".", "0", "0">>)}

RECURSIVE Concat(_)
Concat(lines) == IF lines = <<>> THEN <<>> ELSE Head(lines) \o Concat(Tail(lines))

\* the arguments of OutputModes::from_str
CapabilityTexts == {Concat(lines) : lines \in UNION {[1..k -> ModeLines] : k \in 0..MaxLines}}

ConvInputs ==
    {[kind |-> "resolution_text", text |-> t] : t \in ResolutionTexts}
    \cup {[kind |-> "resolution", val |-> x] : x \in ResolutionValues}
    \cup {[kind |-> "capability_text", text |-> t] : t \in CapabilityTexts}

ConvInit ==
    /\ pc = "convert"
    /\ layouts = EmptyMap
    /\ Idle
    /\ input \in ConvInputs
    /\ result = NoConversion

Converted(r) ==
    /\ result' = r
    /\ pc' = "converted"
    /\ UNCHANGED <<option, wizards, layouts, file, layout_name, wizard, ev, input>>

\* Resolution::from_str, and Resolution::to_string of the value parsed
ParseResolution ==
    /\ pc = "convert"
    /\ input.kind = "resolution_text"
    /\ LET parsed == ResolutionFromStr(input.text)
       IN  Converted([kind |-> "parsed", parsed |-> parsed,
                      formatted |-> IF parsed.ok THEN ResolutionToString(parsed.val)
                                    ELSE EmptyString])

\* Resolution::to_string, and Resolution::from_str of the text
FormatResolution ==
    /\ pc = "convert"
    /\ input.kind = "resolution"
    /\ Converted([kind |-> "formatted", formatted |-> ResolutionToString(input.val),
                  parsed |-> ResolutionFromStr(ResolutionToString(input.val))])

\* OutputModes::from_str
ParseOutputModes ==
    /\ pc = "convert"
    /\ input.kind = "capability_text"
    /\ Converted([kind |-> "modes", parsed |-> OutputModesFromStr(input.text)])

ConvNext ==
    \/ ParseResolution
    \/ FormatResolution
    \/ ParseOutputModes

ConvSpec == ConvInit /\ [][ConvNext]_vars


----------------------------------------------------------------------------
(* Properties *)

\* the prompts and steps of the output loop of create_layout (lines 210-254)
InOutputLoop ==
    pc \in {"select_output_name", "select_state", "select_duplicated_screen",
            "select_resolution", "select_rate", "select_orientation",
            "select_position", "select_relative_screen",
            "does_make_output_primary", "does_add_another_screen"}

\* the outputs of layout l that are marked primary
Primaries(l) == {n \in DOMAIN l.outputs : l.outputs[n].is_primary}

\* C1: at every point of the output loop and in every layout of the catalog
\* and of the configuration file, at most one output of a layout is primary;
\* the primary question is asked only while the layout has no primary output.
AtMostOnePrimary ==
    /\ Cardinality(Primaries(layout)) <= 1
    /\ \A n \in DOMAIN layouts : Cardinality(Primaries(layouts[n])) <= 1
    /\ \A n \in DOMAIN file : Cardinality(Primaries(file[n])) <= 1
    /\ pc = "does_make_output_primary" => Primaries(layout) = {}
    /\ InOutputLoop => (is_primary_selected <=> Primaries(layout) # {})

\* C1, the case: two outputs are configured, the first one is primary and the
\* second was added without the primary question
SecondOutputAfterPrimary ==
    /\ pc = "does_add_another_screen"
    /\ Cardinality(DOMAIN layout.outputs) = 2
    /\ Cardinality(Primaries(layout)) = 1
    /\ \A n \in DOMAIN layout.outputs : layout.outputs[n].state.tag # "Disconnected"

\* the outputs configured in the loop, once the loop is left
Configured == outputs_connected \ DOMAIN output_modes

\* C2: the layout persisted by finalize has an entry for every output of the
\* original catalog and for every output reported disconnected, and every
\* output that was not configured in the loop is a default, Disconnected one.
FinalizeCoversEveryOutput ==
    pc = "does_apply_new_layout" =>
        /\ layout.name \in DOMAIN file
        /\ file[layout.name] = layouts[layout.name]
        /\ LET persisted == file[layout.name].outputs
           IN  /\ outputs_connected \cup disconnected \subseteq DOMAIN persisted
               /\ \A n \in (DOMAIN persisted) \ Configured :
                    /\ persisted[n].state = [tag |-> "Disconnected", ref |-> NoRef]
                    /\ persisted[n].mode = [resolution |-> Res(0, 0), rate |-> Hz(0)]
                    /\ persisted[n].orientation = "Normal"
                    /\ persisted[n].position = [tag |-> "Center", ref |-> NoRef]
                    /\ ~persisted[n].is_primary
                    /\ persisted[n].name = n

\* C2, the case: a layout was persisted with only OutputA of the connected
\* outputs configured, other outputs being connected and others disconnected
FinalizedWithUnconfiguredOutputs ==
    /\ pc = "does_apply_new_layout"
    /\ Configured = {OutputA}
    /\ OutputB \in outputs_connected
    /\ OutputD \in disconnected
    /\ file[layout.name].outputs[OutputA].state.tag = "Connected"

\* C3: in the output loop, the reference of a relative position is an output
\* that was added to the layout in an earlier iteration.
PositionReferenceAlreadyInLayout ==
    InOutputLoop =>
        /\ \A n \in DOMAIN layout.outputs :
               layout.outputs[n].position.ref # NoRef
                   => layout.outputs[n].position.ref \in (DOMAIN layout.outputs) \ {n}
        /\ output.position.ref # NoRef => output.position.ref \in DOMAIN layout.outputs

\* whether output o names itself as the reference of its position or as the
\* screen it duplicates
NamesItself(o) ==
    \/ o.position.ref # NoRef /\ o.position.ref = o.name
    \/ o.state.tag = "Duplicated" /\ o.state.ref = o.name

\* C4: no output of a layout names itself as the reference of its position
\* or as the screen it duplicates.
NoSelfReference ==
    /\ ~NamesItself(output)
    /\ \A n \in DOMAIN layout.outputs : ~NamesItself(layout.outputs[n])
    /\ \A l \in DOMAIN layouts : \A n \in DOMAIN layouts[l].outputs :
           ~NamesItself(layouts[l].outputs[n])
    /\ \A l \in DOMAIN file : \A n \in DOMAIN file[l].outputs :
           ~NamesItself(file[l].outputs[n])

\* C4, the case: the layout holds an output that duplicates a screen and an
\* output with a relative position
LayoutWithReferences ==
    /\ \E n \in DOMAIN layout.outputs : layout.outputs[n].state.tag = "Duplicated"
    /\ \E n \in DOMAIN layout.outputs : layout.outputs[n].position.ref # NoRef

\* the position reference recorded for output n in the layout being built
RecordedReference(n) ==
    IF n \in DOMAIN layout.outputs THEN layout.outputs[n].position.ref ELSE NoRef

RECURSIVE Follow(_, _, _)
Follow(l, n, k) ==
    IF k = 0 THEN n
    ELSE LET r == IF n \in DOMAIN l.outputs THEN l.outputs[n].position.ref ELSE NoRef
         IN  IF r = NoRef THEN NoRef ELSE Follow(l, r, k - 1)

HasPositionCycle(l) ==
    \E n \in DOMAIN l.outputs :
        \E k \in 1..Cardinality(DOMAIN l.outputs) : Follow(l, n, k) = n

\* C6: the outputs already placed relative to the output being configured
\* are not among its candidates, and the position references of a layout
\* contain no cycle.
NoPositionReferenceCycle ==
    /\ pc = "select_relative_screen" =>
           \A b \in Prompt.prompt : RecordedReference(b) # output.name
    /\ ~HasPositionCycle(layout)
    /\ \A l \in DOMAIN layouts : ~HasPositionCycle(layouts[l])

\* LayoutConfig::apply is about to be called, and the name it is called with
AtApply == pc \in {"apply_layout", "apply_new_layout"}
AppliedName == IF pc = "apply_layout" THEN layout_name ELSE layout.name

\* C7: LayoutConfig::apply with a name that is not a key of the catalog
\* returns Ok, does not run the backend, does not write the file and leaves
\* the layouts and their current markers as they were.
ApplyOfAbsentNameIsNoOp ==
    [][AtApply /\ AppliedName \notin DOMAIN layouts
          => /\ layouts' = layouts
             /\ file' = file
             /\ ev'.res = "Ok"
             /\ ev'.backend = NotRun
             /\ ~ev'.write]_vars

\* C7, the case: apply_layout was served with the empty name choose_layout
\* returns after the wizard, the catalog holding a layout
AppliedAbsentName ==
    /\ pc = "exit_0"
    /\ ev.op = "apply_layout"
    /\ ev.backend = NotRun
    /\ layout_name \notin DOMAIN layouts
    /\ layouts # EmptyMap

\* the layouts of catalog ls that are marked current
Currents(ls) == {n \in DOMAIN ls : ls[n].is_current}

\* C8: when LayoutConfig::apply returns Ok for a name of the catalog, that
\* layout alone is marked current, in the catalog and in the file; and a
\* step from a catalog with at most one current layout leads to a catalog
\* with at most one current layout.
AppliedLayoutAloneIsCurrent ==
    [][/\ Cardinality(Currents(layouts)) <= 1 => Cardinality(Currents(layouts')) <= 1
       /\ AtApply /\ AppliedName \in DOMAIN layouts /\ ev'.res = "Ok"
              => /\ Currents(layouts') = {AppliedName}
                 /\ DOMAIN layouts' = DOMAIN layouts
                 /\ file' = layouts']_vars

\* C8, the case: layout "a" was applied while layout "b" was the current one
AppliedOverCurrent ==
    /\ ev.op = "apply_layout"
    /\ ev.res = "Ok"
    /\ layout_name = Str("a")
    /\ DOMAIN layouts = {Str("a"), Str("b")}
    /\ Currents(layouts) = {Str("a")}

\* C9: when the backend could not be run or ended with a failure status,
\* apply changes no current marker and does not write the file.
MarkedCurrentOnlyAfterBackendSuccess ==
    [][AtApply /\ ev'.backend \in {"SpawnFailed", "Failed"}
          => /\ layouts' = layouts
             /\ file' = file
             /\ ~ev'.write]_vars

\* C10: at a validated prompt, a value that is returned is one of the
\* offered options, a response that is not empty and (trimmed) not an option
\* is an invalid round, and an invalid round leaves the prompt, the wizard
\* and the catalog as they were.
ValidatedPromptReturnsOption ==
    [][Prompt.validate
          => /\ \A run \in PickerRuns(Prompt.prompt) :
                    /\ Reply(run).tag = "Ok" => Reply(run).val \in Prompt.prompt
                    /\ (/\ run.spawned /\ run.utf8
                        /\ run.stdout # <<>>
                        /\ Trim(run.stdout) \notin Prompt.prompt)
                           => Reply(run).tag = "InvalidOutput"
             /\ ev'.op = pc /\ ev'.res = "Ok" => ev'.val \in Prompt.prompt
             /\ ev'.res = "InvalidOutput"
                    => /\ UNCHANGED <<pc, option, wizards, layouts, file, layout_name, wizard>>
                       /\ Prompt' = Prompt]_vars

\* C10, the case: the state prompt was answered with text that is not a state
\* and is issued again
PromptIssuedAgain ==
    /\ pc = "select_state"
    /\ ev.op = "select_state"
    /\ ev.res = "InvalidOutput"

\* the program is at a prompt of the picker
AtPrompt == Prompt # NoMessage

\* the prompts and steps of create_layout after the name was accepted
NameAccepted == InOutputLoop \/ pc = "list_disconnected_outputs"

EmptyNameIsNeverAdded ==
    [][/\ pc = "select_layout_name" /\ ev'.res = "Ok" /\ layout'.name = EmptyString
              => pc' = "layout_name_should_not_be_empty"
       /\ pc = "layout_name_should_not_be_empty" /\ ev'.res = "Ok"
              => pc' = "create_layout" /\ layouts' = layouts /\ file' = file
       /\ NameAccepted' => layout'.name # EmptyString
       /\ EmptyString \notin DOMAIN layouts'
       /\ EmptyString \notin DOMAIN file']_vars

\* C12, the case: the name prompt was answered with an empty name, the
\* warning was shown and create_layout starts again
RestartedAfterEmptyName ==
    /\ pc = "create_layout"
    /\ ev.op = "layout_name_should_not_be_empty"
    /\ ev.res = "Ok"

\* C13: the output loop is entered with the name of a layout of the catalog
\* only by the answer Yes to the overwrite confirmation; on another answer
\* create_layout starts again with the catalog as it was; the name and the
\* catalog do not change in the loop, and the step that persists the layout
\* changes no entry of the catalog but the one of that name.
OverwriteOnlyAfterConfirmation ==
    [][/\ ~NameAccepted /\ NameAccepted' /\ layout'.name \in DOMAIN layouts
              => /\ pc = "does_override_existing_layout"
                 /\ ev'.val = Str("Yes")
                 /\ layout'.name = layout.name
       /\ pc = "does_override_existing_layout" /\ ev'.res = "Ok" /\ ev'.val # Str("Yes")
              => pc' = "create_layout" /\ layouts' = layouts /\ file' = file
       /\ InOutputLoop => layouts' = layouts /\ file' = file
       /\ NameAccepted /\ NameAccepted' => layout'.name = layout.name
       /\ pc = "list_disconnected_outputs"
              => \A n \in DOMAIN layouts :
                     n \in DOMAIN layouts' /\ (layouts'[n] # layouts[n] => n = layout.name)]_vars

\* C13, the case: the wizard was given the name of the stored layout "a",
\* the overwrite was confirmed and the entry was replaced
StoredLayoutReplaced ==
    /\ pc = "does_apply_new_layout"
    /\ layout.name = Str("a")
    /\ Str("b") \in DOMAIN layouts
    /\ layouts[Str("a")] # StoredLayout(Str("a"), FALSE)

\* C14: the prompt for the output name offers no output whose OutputModes
\* is empty (OutputModes::is_empty).
OfferedOutputsHaveModes ==
    pc = "select_output_name" =>
        \A name \in Prompt.prompt : ~OutputModesIsEmpty(output_modes[name])

\* OutputModes::from_str was called on the capability text `input`
ModesParsed == pc = "converted" /\ input.kind = "capability_text"

\* every element of the list is greater than the ones after it
StrictlyDescending(list) ==
    \A i, j \in DOMAIN list : i < j => Cmp(list[i], list[j]) = "Greater"

\* C15: the OutputModes parsed from a capability text has resolutions and
\* rates that are each strictly descending, and they are exactly the
\* resolutions and the rounded rates of the lines that match.
ModesSortedWithoutDuplicates ==
    ModesParsed /\ result.parsed.ok =>
        LET lines == Range(CapturesIter(input.text, 1))
        IN  /\ StrictlyDescending(result.parsed.val.resolutions)
            /\ StrictlyDescending(result.parsed.val.rates)
            /\ Range(result.parsed.val.resolutions)
                   = {ResolutionFromStr(l.resolution).val : l \in lines}
            /\ Range(result.parsed.val.rates) = {RateFromStr(l.rate).val : l \in lines}

\* C15, the case: three lines with two resolutions in ascending order and
\* the rates 60.00, 59.94 and 75.03 were parsed into 1920x1080, 1280x720
\* and the rates 75, 60
RepeatedModesParsed ==
    /\ ModesParsed
    /\ input.text = ModeLine(1280, 720, <<"6", "0", ".", "0", "0">>)
                    \o ModeLine(1920, 1080, <<"5", "9", ".", "9", "4">>)
                    \o ModeLine(1280, 1024, <<"7", "5", ".", "0", "3">>)
    /\ result.parsed.val =
           OutputModesOf(<<Res(1920, 1080), Res(1280, 1024), Res(1280, 720)>>,
                         <<Hz(75), Hz(60)>>)

\* Resolution::from_str was called on the text `input`
ResolutionParsed == pc = "converted" /\ input.kind = "resolution_text"

\* the decimal numeral of a positive integer that fits in 16 bits
IsPositiveNumeral(part) ==
    /\ IsDigitString(part)
    /\ Head(part) # "0"
    /\ DigitsToNat(part) <= U16Max

\* the text "HxW" of two positive integers H, W <= 65535
IsValidResolutionText(text) ==
    /\ Len(SplitX(text)) = 2
    /\ \A i \in 1..2 : IsPositiveNumeral(SplitX(text)[i])

\* C16: the text "HxW" of two positive integers up to 65535 is parsed, and
\* the value parsed is written as the same text; the text of every
\* Resolution is parsed into that Resolution.
ResolutionRoundTrip ==
    /\ ResolutionParsed /\ IsValidResolutionText(input.text)
           => result.parsed.ok /\ result.formatted = input.text
    /\ pc = "converted" /\ input.kind = "resolution"
           => result.parsed.ok /\ result.parsed.val = input.val

\* C16, the case: "720x65535" was parsed and written as "720x65535"
ResolutionTextWrittenBack ==
    /\ ResolutionParsed
    /\ input.text = NatToString(720) \o <<"x">> \o NatToString(U16Max)
    /\ result.parsed.val = Res(720, U16Max)
    /\ result.formatted = input.text

\* C17: Resolution::from_str succeeds on the texts that split on 'x' into
\* exactly two parts that are positive integers of 16 bits, and fails on
\* every other text.
ParseFailsUnlessTwoPositiveParts ==
    ResolutionParsed =>
        (result.parsed.ok <=>
            /\ Len(SplitX(input.text)) = 2
            /\ \A i \in 1..2 :
                   /\ ParseU16(SplitX(input.text)[i]).some
                   /\ ParseU16(SplitX(input.text)[i]).val > 0)

\* the conversion that the prompt at pc applies to the value it returns
\* does not take its fatal branch on `val` (ui.rs 87-169, 358-360)
Converts(val) ==
    CASE pc = "choose_start_option" -> StartOptionFrom(val) # "FATAL"
      [] pc = "select_state" -> val = Str("Duplicated") \/ StateFrom(val, None) # Fatal
      [] pc = "select_duplicated_screen" -> StateFrom(Str("Duplicated"), Some(val)) # Fatal
      [] pc = "select_resolution" -> ResolutionFromStr(val).ok
      [] pc = "select_rate" -> RateFromStr(val).ok
      [] pc = "select_orientation" -> OrientationFrom(val) # "FATAL"
      [] pc = "select_position" -> val = Str("Center") => PositionFrom(val, None) # Fatal
      [] pc = "select_relative_screen" -> PositionFrom(position, Some(val)) # Fatal
      [] OTHER -> TRUE

\* C18: no step of the program ends in the fatal branch of a conversion, the
\* output being configured holds no value of such a branch, and at every
\* prompt every value the prompt can return is converted without reaching
\* the fatal branch, the reference being present where the label needs one.
FatalBranchesUnreachable ==
    /\ ev.res # "Fatal"
    /\ output.state # Fatal
    /\ output.position # Fatal
    /\ output.orientation # "FATAL"
    /\ AtPrompt =>
           \A run \in EveryPickerRun(Prompt.prompt) :
               Reply(run).tag = "Ok" => Converts(Reply(run).val)

\* C18, the case: an output went through the conversions of state,
\* resolution, rate, orientation and of a position with its reference
OutputConvertedWithReference ==
    /\ ev.op = "select_relative_screen"
    /\ ev.res = "Ok"
    /\ output.state.tag = "Connected"
    /\ output.mode = [resolution |-> Res(1280, 720), rate |-> Hz(60)]
    /\ output.orientation = "Inverted"
    /\ output.position = [tag |-> "LeftOf", ref |-> ev.val]

\* the output carries no reference to another output as its position
AtCenter(o) == o.position = [tag |-> "Center", ref |-> NoRef]

\* C19: the prompts of select_position are issued only for an output whose
\* state is Connected, and an output that is not Connected has the position
\* Center, while it is configured, in the layout being built and in every
\* layout of the catalog.
PositionOnlyForConnected ==
    /\ pc \in {"select_position", "select_relative_screen"} => output.state.tag = "Connected"
    /\ output.state.tag # "Connected" => AtCenter(output)
    /\ \A n \in DOMAIN layout.outputs :
           layout.outputs[n].state.tag # "Connected" => AtCenter(layout.outputs[n])
    /\ \A l \in DOMAIN layouts : \A n \in DOMAIN layouts[l].outputs :
           layouts[l].outputs[n].state.tag # "Connected" => AtCenter(layouts[l].outputs[n])

\* C19, the case: a duplicated output went past the orientation prompt to
\* the primary question with the position Center, in a layout whose other
\* output was given a relative position
DuplicatedOutputAtCenter ==
    /\ pc = "does_make_output_primary"
    /\ ev.op = "select_orientation"
    /\ output.state.tag = "Duplicated"
    /\ AtCenter(output)
    /\ \E n \in DOMAIN layout.outputs : ~AtCenter(layout.outputs[n])

\* C20: with no candidate for the relative position the position prompt
\* offers Center alone, and with candidates it offers the five positions;
\* the prompt for the relative screen is issued right after a position
\* other than Center was chosen, and only then, over exactly the candidates,
\* of which there is one at least; after Center the output is at Center.
PositionsFollowCandidates ==
    /\ pc = "select_position" =>
           Prompt.prompt = IF OutputsForRelativePosition = {} THEN {Str("Center")}
                           ELSE Range(PositionLabels)
    /\ pc = "select_relative_screen" =>
           /\ ev.op \in {"select_position", "select_relative_screen"}
           /\ position \in Range(PositionLabels) \ {Str("Center")}
           /\ OutputsForRelativePosition # {}
           /\ Prompt.prompt = OutputsForRelativePosition
    /\ ev.op = "select_position" /\ ev.res = "Ok" =>
           IF ev.val = Str("Center")
           THEN pc # "select_relative_screen"
                /\ (pc = "does_make_output_primary" => AtCenter(output))
           ELSE pc = "select_relative_screen"

\* C20, the case: the only connected output was offered Center alone, and
\* the wizard went on with the output at Center
CenterForcedWithoutCandidates ==
    /\ ev.op = "select_position"
    /\ ev.res = "Ok"
    /\ ev.val = Str("Center")
    /\ pc = "does_make_output_primary"
    /\ OutputsForRelativePosition = {}
    /\ AtCenter(output)

\* an output was named and its prompts are issued (lines 218-246)
ConfiguringOutput == InOutputLoop /\ pc \notin {"select_output_name", "does_add_another_screen"}

\* C21: the prompt for the output name offers the pool, which holds exactly
\* the connected outputs that have no entry in the layout being built; the
\* output being configured is one of the pool; the end of an iteration moves
\* exactly that output from the pool into the layout, and no entry of the
\* layout is changed while the loop runs.
PoolShrinksByChosenOutput ==
    [][/\ InOutputLoop => DOMAIN output_modes = outputs_connected \ DOMAIN layout.outputs
       /\ pc = "select_output_name" => Prompt.prompt = DOMAIN output_modes
       /\ ConfiguringOutput => output.name \in DOMAIN output_modes
       /\ ConfiguringOutput /\ NameAccepted' /\ layout' # layout =>
              /\ DOMAIN layout'.outputs = (DOMAIN layout.outputs) \cup {output.name}
              /\ DOMAIN output_modes' = (DOMAIN output_modes) \ {output.name}
       /\ InOutputLoop /\ NameAccepted' =>
              \A n \in DOMAIN layout.outputs :
                  n \in DOMAIN layout'.outputs /\ layout'.outputs[n] = layout.outputs[n]]_vars

\* C21, the case: OutputA was configured and the prompt for the next output
\* offers OutputB and OutputC
SecondOutputOffered ==
    /\ pc = "select_output_name"
    /\ DOMAIN layout.outputs = {OutputA}
    /\ Prompt.prompt = {OutputB, OutputC}

\* a call of create_layout is running (lines 182-275)
InCreateLayout ==
    \/ NameAccepted
    \/ pc \in {"create_layout", "no_monitors", "select_layout_name",
               "layout_name_should_not_be_empty", "does_override_existing_layout",
               "abandoned", "does_apply_new_layout", "apply_new_layout"}

\* the program goes on while it can, every call of the picker and of the
\* backend returns, and the user does not leave the name empty or decline
\* the overwrite for ever
LiveSpec ==
    /\ Spec
    /\ WF_vars(Next)
    /\ SF_vars(SelectLayoutName /\ pc' \in {"does_override_existing_layout", "select_output_name"})
    /\ SF_vars(DoesOverrideExistingLayout /\ pc' = "select_output_name")

\* C22, the loop: while the loop runs an output is left in the pool and
\* fewer outputs than are connected were configured; the question "Add
\* another screen?" is asked only with an output left, and the loop is left
\* on the first answer that is not Yes.
LoopBounded ==
    /\ InOutputLoop => DOMAIN output_modes # {}
    /\ InOutputLoop => Cardinality(DOMAIN layout.outputs) < Cardinality(outputs_connected)
    /\ ev.op = "does_add_another_screen" /\ ev.res = "Ok" /\ ev.val # Str("Yes")
           => ~InOutputLoop

\* C22: the loop is bounded as above, and from every point of a call of
\* create_layout the call ends (it returns or the process exits) unless the
\* picker returns a response that is none of the options offered.
CreateLayoutTerminates ==
    /\ []LoopBounded
    /\ InCreateLayout ~> (~InCreateLayout \/ ev.res = "InvalidOutput")

\* C22, the case: three outputs were connected, the third iteration emptied
\* the pool and the loop was left without the question
LoopLeftWithEmptyPool ==
    /\ pc = "list_disconnected_outputs"
    /\ Cardinality(outputs_connected) = 3
    /\ DOMAIN layout.outputs = outputs_connected
    /\ ev.op # "does_add_another_screen"

\* a capability text that OutputModes::from_str parses into FourModes:
\* 1920x1080 at 60 Hz and 1280x720 at 75 Hz
FourModesText ==
    ModeLine(1920, 1080, <<"6", "0", ".", "0", "0">>)
    \o ModeLine(1280, 720, <<"7", "5", ".", "0", "0">>)

\* the pairs of resolution and rate of the lines of a capability text
AdvertisedModes(text) ==
    {[resolution |-> ResolutionFromStr(m.resolution).val, rate |-> RateFromStr(m.rate).val] :
         m \in Range(CapturesIter(text, 1))}

\* C23: when OutputA is connected alone and advertises the lines of
\* FourModesText, the mode stored for it in the layout being built, if it is
\* not Disconnected, is the pair of one of these lines.
StoredModeWasAdvertised ==
    /\ OutputModesFromStr(FourModesText) = [ok |-> TRUE, val |-> FourModes]
    /\ outputs_connected = {OutputA} /\ OutputA \in DOMAIN layout.outputs
       /\ layout.outputs[OutputA].state.tag # "Disconnected"
           => layout.outputs[OutputA].mode \in AdvertisedModes(FourModesText)

\* C24: every validated prompt offers one option at least.
ValidatedPromptsHaveOptions ==
    AtPrompt /\ Prompt.validate => Prompt.prompt # {}

\* C25: in the layout the wizard persisted, the reference of every position
\* and of every Duplicated state names an output of that layout whose state
\* is not Disconnected.
PersistedReferencesAreLive ==
    pc = "does_apply_new_layout" =>
        LET persisted == layouts[layout.name].outputs
        IN  \A n \in DOMAIN persisted :
                \A ref \in {persisted[n].position.ref, persisted[n].state.ref} \ {NoRef} :
                    /\ ref \in DOMAIN persisted
                    /\ persisted[ref].state.tag # "Disconnected"

\* create_layout is running and has not reached the call of config.add
BeforeFinalize ==
    InCreateLayout
    /\ pc \notin {"list_disconnected_outputs", "does_apply_new_layout", "apply_new_layout"}

\* C26: no step of create_layout before the one that adds the layout changes
\* the catalog or the configuration file, whether the step goes on, ends the
\* process or fails; and the step that adds the layout leaves both as they
\* were when the query of the disconnected outputs fails.
CatalogUntouchedBeforeFinalize ==
    [][/\ BeforeFinalize => layouts' = layouts /\ file' = file
       /\ pc = "list_disconnected_outputs" /\ ev'.res \notin {"Ok", "Persist"}
              => layouts' = layouts /\ file' = file]_vars

\* C26, the case: with two layouts stored, one of them current, the wizard
\* configured an output and was left by an empty response to "Add another
\* screen?"; the catalog is the stored one
WizardAbortedWithStoredCatalog ==
    /\ pc = "exit_0"
    /\ ev.op = "does_add_another_screen"
    /\ ev.res = "Exit0"
    /\ layouts = Put(Put(EmptyMap, Str("a"), StoredLayout(Str("a"), FALSE)),
                     Str("b"), StoredLayout(Str("b"), TRUE))
    /\ file = layouts

\* C27: the step that persists the layout keeps every output configured in
\* the loop as it was configured, whatever outputs are reported disconnected.
ConfiguredOutputsKept ==
    [][pc = "list_disconnected_outputs" /\ pc' = "does_apply_new_layout" =>
           \A n \in DOMAIN layout.outputs :
               /\ layouts'[layout.name].outputs[n] = layout.outputs[n]
               /\ file'[layout.name].outputs[n] = layout.outputs[n]]_vars

\* the output has the fields of Output::new() (but for its name)
IsDefault(o) == [o EXCEPT !.name = EmptyString] = OutputNew

\* C28: the prompts for the resolution, the rate, the orientation, the
\* position and the primary flag are issued only for an output that is not
\* Disconnected, and a Disconnected output (the one being configured, those
\* of the layout being built, of the catalog and of the file) has the mode
\* 0x0 at rate 0, the orientation Normal, the position Center and is not
\* primary.
DisconnectedOutputsAreDefault ==
    /\ pc \in {"select_resolution", "select_rate", "select_orientation", "select_position",
               "select_relative_screen", "does_make_output_primary"}
           => output.state.tag # "Disconnected"
    /\ output.state.tag = "Disconnected" => IsDefault(output)
    /\ \A n \in DOMAIN layout.outputs :
           layout.outputs[n].state.tag = "Disconnected" => IsDefault(layout.outputs[n])
    /\ \A l \in DOMAIN layouts : \A n \in DOMAIN layouts[l].outputs :
           layouts[l].outputs[n].state.tag = "Disconnected" => IsDefault(layouts[l].outputs[n])
    /\ \A l \in DOMAIN file : \A n \in DOMAIN file[l].outputs :
           file[l].outputs[n].state.tag = "Disconnected" => IsDefault(file[l].outputs[n])

\* C28, the case: OutputA was given the state Disconnected and was added to
\* the layout right after the state prompt, beside an output with a mode
DisconnectedOutputAdded ==
    /\ ev.op = "select_state"
    /\ ev.val = Str("Disconnected")
    /\ pc = "does_add_another_screen"
    /\ OutputA \in DOMAIN layout.outputs
    /\ layout.outputs[OutputA].state.tag = "Disconnected"
    /\ \E n \in DOMAIN layout.outputs : ~IsDefault(layout.outputs[n])

\* C29: the loop is left with one output at least in the layout, the branch
\* that abandons an empty layout is not taken, and unless the backend cannot
\* be run or the file cannot be written the step after the loop persists
\* the layout, with one entry at least.
LoopExitPersistsLayout ==
    [][/\ pc # "abandoned"
       /\ pc = "list_disconnected_outputs" => ~LayoutIsEmpty(layout)
       /\ pc = "list_disconnected_outputs" /\ ev'.res \notin {"Io", "Persist"} =>
              /\ pc' = "does_apply_new_layout"
              /\ layout.name \in DOMAIN file'
              /\ ~LayoutIsEmpty(file'[layout.name])]_vars

====
